---------------------------- MODULE Spec2Model ----------------------------
(***************************************************************************)
(* Model of the nautilus-server order-signing core:                        *)
(*   orders/crypto.rs  the process-wide signing key (a write-once cell)     *)
(*   orders/order.rs   request -> response mapping and the signing envelope *)
(*   main.rs           startup and the two order request handlers           *)
(*   lib.rs            AppState                                             *)
(*                                                                         *)
(* Spec is the server process: the main thread runs startup and, once the  *)
(* listener is bound, handler tasks run process_order_http and             *)
(* orders_health concurrently.  SpecLib is the public API of the orders    *)
(* module called by concurrent threads in any order (ensure_initialized,   *)
(* public_key_base64, sign, make_response, sign_response); it is the       *)
(* specification of the key's lifecycle, so its callers process one fixed  *)
(* request and its clock stands still.  Three further specifications look  *)
(* at one aspect each: SpecAgain is the server whose clients submit the    *)
(* same bodies repeatedly and keep the earlier answers; SpecNoClock is the *)
(* server on a host whose wall clock reads before the epoch; SpecEncode    *)
(* applies signing_message to pairs of responses.                          *)
(*                                                                         *)
(* Strings are sequences of bytes (their UTF-8 encoding).  Integers are    *)
(* kept below 2^31; u64 fields are encoded on 8 bytes as the code does.    *)
(* Ed25519 and base64 come from external crates and are modelled as ideal  *)
(* injective constructors: a signature names the seed that made it and the *)
(* exact message, and verifies only under that seed's public key.          *)
(***************************************************************************)
EXTENDS Integers, Sequences, FiniteSets, TLC

\* ----------------------------------------------------------------- bounds
\* Threads that call the orders module's public API concurrently (SpecLib).
NumCallers == 3
\* Distinct 32-byte seeds the randomness source may return.
NumSeeds == 2
\* The wall clock ranges over -1 (before the epoch) .. MaxTime milliseconds.
MaxTime == 1
\* Failed randomness draws explored in one behaviour.
MaxFailedDraws == 2
\* The longest sequence the encoder accepts.  The bcs crate's limit is
\* MAX_SEQUENCE_LENGTH = 2^31 - 1 bytes; the model scales it down so that a
\* string over the limit can be written out.
MaxSequenceLength == 3

\* The server's concurrent handler tasks (Spec): two, so that every step of one
\* request interleaves with every step of another.
Handlers == {1, 2}
Callers == {10 + i : i \in 1..NumCallers}
Seeds == 1..NumSeeds
ClockValues == (-1)..MaxTime

\* None, and a variable that holds nothing.
Null == [null |-> TRUE]
\* Some(x)
Some(x) == [some |-> x]
\* What a call that panics yields.
Panic == [panic |-> TRUE]
\* Ok(()) and Err(e)
Ok == [ok |-> TRUE]
Err(e) == [err |-> e]
\* The answer to a body the Json extractor rejects.
Rejected == [rejected |-> TRUE]

\* -------------------------------------------------------------- the state
MainThread == 0
Threads == {MainThread} \cup Handlers \cup Callers

VARIABLES
  cellState,    \* SIGNING_KEY's once-cell: "incomplete", "running" or "complete"
  SIGNING_KEY,  \* the cell's value: Null or a SigningKey
  state,        \* main's Arc<AppState>: Null before it is built
  listening,    \* the listener is bound and axum::serve runs
  wallClock,    \* SystemTime::now(), in ms relative to the epoch
  pc,           \* each thread's position
  req,          \* a handler's deserialized OrderRequest
  resp,         \* a handler's SignableOrderResponse
  sig,          \* sign_response's `sig`
  seed,         \* ensure_initialized's `seed`: [0u8; 32] until drawn
  call,         \* each thread's current or last call and what it returned
  draws,        \* history: calls of getrandom so far
  failedDraws,  \* history: calls of getrandom that failed
  healthPks,    \* history: public keys orders_health has answered
  orderPks,     \* history: public keys process_order_http has answered
  escrowed      \* history: order ids whose Deposit process_order_http has answered

vars == <<cellState, SIGNING_KEY, state, listening, wallClock, pc, req, resp, sig,
          seed, call, draws, failedDraws, healthPks, orderPks, escrowed>>

cellVars == <<cellState, SIGNING_KEY>>
orderVars == <<req, resp, sig>>
historyVars == <<healthPks, orderPks, escrowed>>
drawVars == <<draws, failedDraws>>

\* ------------------------------------------------------------ order.rs data
\* b"nautilus/order/v1"
DOMAIN_TAG == <<110, 97, 117, 116, 105, 108, 117, 115, 47, 111, 114, 100, 101, 114, 47, 118, 49>>

\* enum OrderAction, in declaration order (BCS variant index = position - 1)
OrderAction == <<"Initiate", "Deposit", "Release", "Refund">>
\* enum OrderStatus, in declaration order
OrderStatus == <<"Pending", "Escrowed", "Released", "Refunded", "Rejected">>

Range(s) == {s[i] : i \in DOMAIN s}

VariantIndex(enum, v) == (CHOOSE i \in DOMAIN enum : enum[i] = v) - 1

\* The strings the model's requests use.
StrEmpty == <<>>
StrO1 == <<111, 49>>
StrUSD == <<85, 83, 68>>
StrC == <<99>>
StrM == <<109>>

\* #[serde(rename_all = "snake_case")]: the JSON names of OrderAction's variants.
JsonActionNames == <<"initiate", "deposit", "release", "refund">>

\* The JSON bodies posted to /orders/process: every action with the spec's
\* scenario values, a Refund with empty strings and a zero amount, and a body
\* whose action is outside the closed set.
JsonBodies ==
  { [version |-> 1, order_id |-> StrO1, customer |-> StrC, merchant |-> StrM,
     amount |-> 500, currency |-> StrUSD, action |-> a]
    : a \in Range(JsonActionNames) \cup {"cancel"} }
  \cup
  { [version |-> 1, order_id |-> StrEmpty, customer |-> StrC, merchant |-> StrM,
     amount |-> 0, currency |-> StrEmpty, action |-> "refund"] }

\* (mutant) An enum with a catch-all variant (#[serde(other)]): an unknown
\* action string deserializes to Initiate.
DeserializeCatchAll(body) ==
  [version |-> body.version, order_id |-> body.order_id,
   customer |-> body.customer, merchant |-> body.merchant,
   amount |-> body.amount, currency |-> body.currency,
   action |-> IF body.action \in Range(JsonActionNames)
                THEN OrderAction[CHOOSE i \in DOMAIN JsonActionNames :
                                   JsonActionNames[i] = body.action]
                ELSE "Initiate",
   client_timestamp_ms |-> Null, metadata |-> Null]

\* Json<OrderRequest>: the struct OrderRequest, or Null when serde rejects the body.
Deserialize(body) ==
  IF body.action \in Range(JsonActionNames)
    THEN [version |-> body.version, order_id |-> body.order_id,
          customer |-> body.customer, merchant |-> body.merchant,
          amount |-> body.amount, currency |-> body.currency,
          action |-> OrderAction[CHOOSE i \in DOMAIN JsonActionNames :
                                   JsonActionNames[i] = body.action],
          client_timestamp_ms |-> Null, metadata |-> Null]
    ELSE Null

\* The values of struct OrderRequest the model uses.
Requests == {Deserialize(b) : b \in JsonBodies} \ {Null}

\* (mutant) The clock's offset from the epoch passed on without unwrap_or(0).
unix_time_ms_no_sentinel(clock) == clock

\* fn unix_time_ms: the wall clock in ms, 0 when it reads before the epoch.
unix_time_ms(clock) == IF clock < 0 THEN 0 ELSE clock

\* (mutant) Release and Refund exchanged in the match.
StatusForSwapped(action) ==
  CASE action = "Initiate" -> <<"Pending", Null>>
    [] action = "Deposit"  -> <<"Escrowed", Null>>
    [] action = "Release"  -> <<"Refunded", Null>>
    [] action = "Refund"   -> <<"Released", Null>>

\* The match of make_response: action -> (status, notes).
StatusFor(action) ==
  CASE action = "Initiate" -> <<"Pending", Null>>
    [] action = "Deposit"  -> <<"Escrowed", Null>>
    [] action = "Release"  -> <<"Released", Null>>
    [] action = "Refund"   -> <<"Refunded", Null>>

\* (mutant) A mapper that consults earlier requests: Release and Refund of an
\* order with no processed Deposit are rejected.
make_response_needs_deposit(r, clock) ==
  LET sn == IF r.action \in {"Release", "Refund"} /\ r.order_id \notin escrowed
              THEN <<"Rejected", Some(<<110, 111>>)>>
              ELSE StatusFor(r.action)
  IN  [version |-> r.version,
       order_id |-> r.order_id,
       action |-> r.action,
       status |-> sn[1],
       amount |-> r.amount,
       currency |-> r.currency,
       server_timestamp_ms |-> unix_time_ms(clock),
       escrow_tx_id |-> Null,
       notes |-> sn[2]]

\* fn make_response(req) at wall-clock reading `clock`.
make_response(r, clock) ==
  LET sn == StatusFor(r.action)
  IN  [version |-> r.version,
       order_id |-> r.order_id,
       action |-> r.action,
       status |-> sn[1],
       amount |-> r.amount,
       currency |-> r.currency,
       server_timestamp_ms |-> unix_time_ms(clock),
       escrow_tx_id |-> Null,
       notes |-> sn[2]]

\* --------------------------------------------------------------------- BCS
RECURSIVE Uleb128(_)
Uleb128(n) == IF n < 128 THEN <<n>> ELSE <<(n % 128) + 128>> \o Uleb128(n \div 128)

RECURSIVE LittleEndian(_, _)
LittleEndian(n, width) ==
  IF width = 0 THEN <<>> ELSE <<n % 256>> \o LittleEndian(n \div 256, width - 1)

BcsU8(n) == <<n % 256>>
BcsU64(n) == LittleEndian(n, 8)
BcsString(s) == Uleb128(Len(s)) \o s
BcsEnum(enum, v) == Uleb128(VariantIndex(enum, v))
\* (mutant) An absent option left out of the encoding instead of encoded as 0.
BcsOptionStringSkipNone(o) == IF o = Null THEN <<>> ELSE <<1>> \o BcsString(o.some)

\* Option<String>: a 0 byte for None, a 1 byte and the string for Some.
BcsOptionString(o) == IF o = Null THEN <<0>> ELSE <<1>> \o BcsString(o.some)

\* bcs::to_bytes(resp): the fields of SignableOrderResponse in declaration order.
BcsResponse(r) ==
  BcsU8(r.version) \o BcsString(r.order_id) \o BcsEnum(OrderAction, r.action)
  \o BcsEnum(OrderStatus, r.status) \o BcsU64(r.amount) \o BcsString(r.currency)
  \o BcsU64(r.server_timestamp_ms) \o BcsOptionString(r.escrow_tx_id)
  \o BcsOptionString(r.notes)

\* bcs::to_bytes(resp) is Err(ExceededMaxLen): a string is over the limit.
bcs_to_bytes_is_err(r) ==
  \/ Len(r.order_id) > MaxSequenceLength
  \/ Len(r.currency) > MaxSequenceLength
  \/ (r.escrow_tx_id # Null /\ Len(r.escrow_tx_id.some) > MaxSequenceLength)
  \/ (r.notes # Null /\ Len(r.notes.some) > MaxSequenceLength)

\* (mutant) The message without the domain tag.
signing_message_no_tag(r) == BcsResponse(r)

\* fn signing_message(resp), when bcs::to_bytes is Ok; .expect(..) panics otherwise.
signing_message(r) == DOMAIN_TAG \o BcsResponse(r)

\* The values of struct SignableOrderResponse the encoding is examined on: for
\* each field, values whose bytes could be taken for a length, a tag or a
\* neighbouring field.
ResponseFieldValues ==
  [version |-> {1, 2},
   order_id |-> {StrO1, StrEmpty, <<1>>},
   action |-> Range(OrderAction),
   status |-> Range(OrderStatus),
   amount |-> {500, 0, 1, 256},
   currency |-> {StrUSD, StrEmpty, <<0>>},
   server_timestamp_ms |-> {0, 1, 256},
   escrow_tx_id |-> {Null, Some(StrEmpty), Some(<<0>>)},
   notes |-> {Null, Some(StrEmpty), Some(<<0>>)}]

\* The response of the spec's scenario 1.
ScenarioResponse ==
  [version |-> 1, order_id |-> StrO1, action |-> "Deposit", status |-> "Escrowed",
   amount |-> 500, currency |-> StrUSD, server_timestamp_ms |-> 0,
   escrow_tx_id |-> Null, notes |-> Null]

\* Responses that differ from scenario 1's in at most two fields, so that two
\* of them differ in up to four.
Responses ==
  { r \in [version : ResponseFieldValues.version,
           order_id : ResponseFieldValues.order_id,
           action : ResponseFieldValues.action,
           status : ResponseFieldValues.status,
           amount : ResponseFieldValues.amount,
           currency : ResponseFieldValues.currency,
           server_timestamp_ms : ResponseFieldValues.server_timestamp_ms,
           escrow_tx_id : ResponseFieldValues.escrow_tx_id,
           notes : ResponseFieldValues.notes] :
      Cardinality({f \in DOMAIN ScenarioResponse : r[f] # ScenarioResponse[f]}) <= 2 }

\* Scenario 1's response with an order_id one byte over the encoder's limit.
ResponseTooLong ==
  [ScenarioResponse EXCEPT !.order_id = [i \in 1..(MaxSequenceLength + 1) |-> 120]]

\* ---------------------------------------------------------------- crypto
\* SigningKey::from_bytes(&seed)
SigningKeyFromBytes(bytes) == [seed |-> bytes]
\* sk.verifying_key()
VerifyingKey(sk) == [vk_of |-> sk.seed]
\* sk.sign(message).to_bytes()
Ed25519Sign(sk, message) == [signer |-> sk.seed, msg |-> message]
\* B64.encode(bytes)
B64Encode(x) == [b64 |-> x]
B64Decode(s) == s.b64
\* what a verifier does with a public key, a message and a signature
Ed25519Verify(vk, message, signature) ==
  signature.signer = vk.vk_of /\ signature.msg = message

\* Messages a direct caller of crypto::sign passes.
Messages == {<<1>>}

InitCommon ==
  /\ cellState = "incomplete"
  /\ SIGNING_KEY = Null
  /\ state = Null
  /\ listening = FALSE
  /\ req = [t \in Threads |-> Null]
  /\ resp = [t \in Threads |-> Null]
  /\ sig = [t \in Threads |-> Null]
  /\ seed = [t \in Threads |-> 0]
  /\ call = [t \in Threads |-> Null]
  /\ draws = 0
  /\ failedDraws = 0
  /\ healthPks = {}
  /\ orderPks = {}
  /\ escrowed = {}

\* The server process at the entry of main.
Init ==
  /\ InitCommon
  /\ wallClock \in ClockValues
  /\ pc = [t \in Threads |-> IF t = MainThread THEN "start" ELSE "idle"]

\* The server process on a host whose wall clock reads before the epoch, so
\* that duration_since(UNIX_EPOCH) is an Err.
InitNoClock ==
  /\ InitCommon
  /\ wallClock = -1
  /\ pc = [t \in Threads |-> IF t = MainThread THEN "start" ELSE "idle"]

\* Two threads about to encode a response each for signing.
InitEncode ==
  /\ cellState = "incomplete"
  /\ SIGNING_KEY = Null
  /\ state = Null
  /\ listening = FALSE
  /\ wallClock = 0
  /\ req = [t \in Threads |-> Null]
  /\ \E f \in [Handlers -> Responses \cup {ResponseTooLong}] :
       resp = [t \in Threads |-> IF t \in Handlers THEN f[t] ELSE Null]
  /\ sig = [t \in Threads |-> Null]
  /\ seed = [t \in Threads |-> 0]
  /\ call = [t \in Threads |-> Null]
  /\ draws = 0
  /\ failedDraws = 0
  /\ healthPks = {}
  /\ orderPks = {}
  /\ escrowed = {}
  /\ pc = [t \in Threads |-> IF t \in Handlers THEN "encode" ELSE "off"]

\* The orders module loaded in a process whose threads call its public API.
InitLib ==
  /\ InitCommon
  /\ wallClock = 0
  /\ pc = [t \in Threads |-> IF t = MainThread THEN "off" ELSE "idle"]

\* ------------------------------------------------ crypto::ensure_initialized
\* (mutant) main drops the Result instead of .expect(..)ing it.
AfterEnsureIgnoringErr(t, result) ==
  IF t = MainThread
    THEN (IF result = Ok THEN "log_pk" ELSE "bind")
    ELSE "idle"

\* Where a call of ensure_initialized returns to: main's .expect(...) panics on
\* Err and goes on to log the public key on Ok; an API caller gets the Result.
AfterEnsure(t, result) ==
  IF t = MainThread
    THEN (IF result = Ok THEN "log_pk" ELSE "panicked")
    ELSE "idle"

\* A thread calls ensure_initialized().
ensure_initialized_call(t) ==
  /\ pc[t] = "idle"
  /\ pc' = [pc EXCEPT ![t] = "ei_enter"]
  /\ call' = [call EXCEPT ![t] = [fn |-> "ensure_initialized", val |-> Null,
                                  startedComplete |-> cellState = "complete",
                                  drew |-> FALSE]]
  /\ UNCHANGED <<cellVars, state, listening, wallClock, orderVars, seed,
                 drawVars, historyVars>>

\* (mutant) A cell that runs the initializer again when it already holds a value.
EnterOutcomeReinit(st) ==
  CASE st = "complete"   -> "initialize"
    [] st = "incomplete" -> "initialize"
    [] st = "running"    -> "wait"

\* (mutant) An initializer that does not wait for a running one.
EnterOutcomeNoWait(st) ==
  CASE st = "complete"   -> "return"
    [] st = "incomplete" -> "initialize"
    [] st = "running"    -> "initialize"

\* What get_or_try_init does on entry, by the cell's state: return the value,
\* become the initializer, or wait for the running initializer.
EnterOutcome(st) ==
  CASE st = "complete"   -> "return"
    [] st = "incomplete" -> "initialize"
    [] st = "running"    -> "wait"

\* SIGNING_KEY.get_or_try_init(..): entry.
ensure_initialized_enter(t) ==
  /\ pc[t] = "ei_enter"
  /\ EnterOutcome(cellState) # "wait"
  /\ IF EnterOutcome(cellState) = "return"
       THEN /\ pc' = [pc EXCEPT ![t] = AfterEnsure(t, Ok)]
            /\ call' = [call EXCEPT ![t].val = Ok]
            /\ UNCHANGED cellState
       ELSE /\ cellState' = "running"
            /\ pc' = [pc EXCEPT ![t] = "ei_draw"]
            /\ UNCHANGED call
  /\ UNCHANGED <<SIGNING_KEY, state, listening, wallClock, orderVars, seed,
                 drawVars, historyVars>>

\* (mutant) A cell that counts as initialised once its closure has run, failed
\* or not.
StateAfterFailedInitComplete == "complete"

\* The cell's state after the init closure returned Err: the guard resets it.
StateAfterFailedInit == "incomplete"

\* getrandom::getrandom(&mut seed): fills the seed, or fails and the closure
\* returns Err("rng_unavailable") through `?`.
ensure_initialized_draw(t) ==
  /\ pc[t] = "ei_draw"
  /\ draws' = draws + 1
  /\ \/ \E s \in Seeds :
          /\ seed' = [seed EXCEPT ![t] = s]
          /\ pc' = [pc EXCEPT ![t] = "ei_store"]
          /\ call' = [call EXCEPT ![t].drew = TRUE]
          /\ UNCHANGED <<cellState, failedDraws>>
     \/ /\ failedDraws < MaxFailedDraws
        /\ failedDraws' = failedDraws + 1
        /\ cellState' = StateAfterFailedInit
        /\ pc' = [pc EXCEPT ![t] = AfterEnsure(t, Err("rng_unavailable"))]
        /\ call' = [call EXCEPT ![t].val = Err("rng_unavailable"), ![t].drew = TRUE]
        /\ UNCHANGED seed
  /\ UNCHANGED <<SIGNING_KEY, state, listening, wallClock, orderVars, historyVars>>

\* SigningKey::from_bytes(&seed); the cell stores it and becomes complete.
ensure_initialized_store(t) ==
  /\ pc[t] = "ei_store"
  /\ SIGNING_KEY' = SigningKeyFromBytes(seed[t])
  /\ cellState' = "complete"
  /\ seed' = [seed EXCEPT ![t] = 0]
  /\ pc' = [pc EXCEPT ![t] = AfterEnsure(t, Ok)]
  /\ call' = [call EXCEPT ![t].val = Ok]
  /\ UNCHANGED <<state, listening, wallClock, orderVars, drawVars, historyVars>>

\* ------------------------------------ crypto::public_key_base64 and sign
\* SIGNING_KEY.get(): the value only when the cell is complete.
CellGet == IF cellState = "complete" THEN SIGNING_KEY ELSE Null

\* public_key_base64(): .expect(..) panics on an empty cell.
public_key_base64 ==
  IF CellGet = Null THEN Panic ELSE B64Encode(VerifyingKey(CellGet))

\* sign(message): .expect(..) panics on an empty cell.
sign(message) ==
  IF CellGet = Null THEN Panic ELSE Ed25519Sign(CellGet, message)

\* A thread calls public_key_base64() directly.
CallPublicKey(t) ==
  /\ pc[t] = "idle"
  /\ call' = [call EXCEPT ![t] = [fn |-> "public_key_base64", val |-> public_key_base64,
                                  cellWas |-> cellState]]
  /\ pc' = [pc EXCEPT ![t] = IF public_key_base64 = Panic THEN "panicked" ELSE "idle"]
  /\ UNCHANGED <<cellVars, state, listening, wallClock, orderVars, seed,
                 drawVars, historyVars>>

\* A thread calls sign(message) directly.
CallSign(t) ==
  /\ pc[t] = "idle"
  /\ \E m \in Messages :
       /\ call' = [call EXCEPT ![t] = [fn |-> "sign", val |-> sign(m), arg |-> m,
                                       cellWas |-> cellState]]
       /\ pc' = [pc EXCEPT ![t] = IF sign(m) = Panic THEN "panicked" ELSE "idle"]
  /\ UNCHANGED <<cellVars, state, listening, wallClock, orderVars, seed,
                 drawVars, historyVars>>


\* ------------------------------------------- make_response, sign_response
\* History: the signed answers the server's clients hold to earlier
\* submissions of request r, all returned before r is submitted again.
AnsweredBefore(r) ==
  { call[u].val : u \in { h \in Handlers : /\ call[h] # Null
                                           /\ call[h].fn = "process_order"
                                           /\ "req" \in DOMAIN call[h]
                                           /\ call[h].req = r } }

\* A thread starts processing request r: the body of process_order_http, or an
\* API caller's make_response followed by sign_response.  Two arguments are
\* history: `body` is the JSON body r was deserialized from (Null for an API
\* caller), `earlier` the answers to r that the submitter already holds.
StartOrder(t, r, body, earlier) ==
  /\ req' = [req EXCEPT ![t] = r]
  /\ pc' = [pc EXCEPT ![t] = "po_make"]
  /\ call' = [call EXCEPT ![t] = [fn |-> "process_order", val |-> Null,
                                  submitted |-> body, prev |-> earlier]]
  /\ UNCHANGED <<cellVars, state, listening, wallClock, resp, sig, seed,
                 drawVars, historyVars>>

\* The request an API caller processes: the spec's scenario 1.
CallerRequest ==
  [version |-> 1, order_id |-> StrO1, customer |-> StrC, merchant |-> StrM,
   amount |-> 500, currency |-> StrUSD, action |-> "Deposit",
   client_timestamp_ms |-> Null, metadata |-> Null]

\* An API caller processes a request.
CallOrder(t) ==
  /\ pc[t] = "idle"
  /\ StartOrder(t, CallerRequest, Null, {})

\* let resp = orders::make_response(&req);
make_response_step(t) ==
  /\ pc[t] = "po_make"
  /\ resp' = [resp EXCEPT ![t] = make_response(req[t], wallClock)]
  /\ pc' = [pc EXCEPT ![t] = "po_sign"]
  /\ UNCHANGED <<cellVars, state, listening, wallClock, req, sig, seed, call,
                 drawVars, historyVars>>

\* sign_response, first half: msg = signing_message(resp); sig = crypto::sign(&msg).
\* Either call may panic, which ends the thread's call.
sign_response_sign(t) ==
  /\ pc[t] = "po_sign"
  /\ LET s == IF bcs_to_bytes_is_err(resp[t]) THEN Panic
                ELSE sign(signing_message(resp[t]))
     IN  IF s = Panic
           THEN /\ pc' = [pc EXCEPT ![t] = "panicked"]
                /\ call' = [call EXCEPT ![t].val = Panic]
                /\ UNCHANGED sig
           ELSE /\ sig' = [sig EXCEPT ![t] = s]
                /\ pc' = [pc EXCEPT ![t] = "po_seal"]
                /\ UNCHANGED call
  /\ UNCHANGED <<cellVars, state, listening, wallClock, req, resp, seed,
                 drawVars, historyVars>>

\* (mutant) An artifact that carries the public key of AppState's boot keypair.
SignedOrderResponseBootKey(r, s, pk_b64) ==
  [response |-> r, signature |-> B64Encode(s),
   public_key |-> B64Encode(VerifyingKey(state.eph_kp)), scheme |-> "ed25519"]

\* let msg = signing_message(resp); the first statement of sign_response.  When
\* the encoding fails, .expect(..) panics and sign_response returns nothing.
signing_message_call(t) ==
  /\ pc[t] = "encode"
  /\ IF bcs_to_bytes_is_err(resp[t])
       THEN /\ call' = [call EXCEPT ![t] = [fn |-> "signing_message", arg |-> resp[t],
                                            val |-> Panic]]
            /\ pc' = [pc EXCEPT ![t] = "panicked"]
       ELSE /\ call' = [call EXCEPT ![t] = [fn |-> "signing_message", arg |-> resp[t],
                                            val |-> [msg |-> signing_message(resp[t])]]]
            /\ pc' = [pc EXCEPT ![t] = "encoded"]
  /\ UNCHANGED <<cellVars, state, listening, wallClock, orderVars, seed,
                 drawVars, historyVars>>

\* The SignedOrderResponse sign_response assembles.
SignedOrderResponse(r, s, pk_b64) ==
  [response |-> r, signature |-> B64Encode(s), public_key |-> pk_b64, scheme |-> "ed25519"]

\* sign_response, second half: pk_b64 = crypto::public_key_base64(); the
\* artifact is assembled and returned.
sign_response_seal(t) ==
  /\ pc[t] = "po_seal"
  /\ LET pk == public_key_base64
     IN  IF pk = Panic
           THEN /\ pc' = [pc EXCEPT ![t] = "panicked"]
                /\ call' = [call EXCEPT ![t].val = Panic]
                /\ UNCHANGED <<req, resp, sig, historyVars>>
           ELSE /\ call' = [call EXCEPT ![t] =
                              [fn |-> "process_order", req |-> req[t], arg |-> resp[t],
                               val |-> SignedOrderResponse(resp[t], sig[t], pk),
                               submitted |-> call[t].submitted, prev |-> call[t].prev]]
                /\ pc' = [pc EXCEPT ![t] = "idle"]
                /\ req' = [req EXCEPT ![t] = Null]
                /\ resp' = [resp EXCEPT ![t] = Null]
                /\ sig' = [sig EXCEPT ![t] = Null]
                /\ IF t \in Handlers
                     THEN /\ orderPks' = orderPks \cup {pk}
                          /\ escrowed' = IF req[t].action = "Deposit"
                                           THEN escrowed \cup {req[t].order_id}
                                           ELSE escrowed
                     ELSE UNCHANGED <<orderPks, escrowed>>
                /\ UNCHANGED healthPks
  /\ UNCHANGED <<cellVars, state, listening, wallClock, seed, drawVars>>

\* ------------------------------------------------------------------ main.rs
\* Ed25519KeyPair::generate(&mut rand::thread_rng()); AppState { eph_kp, api_key }.
main_start ==
  /\ pc[MainThread] = "start"
  /\ \E e \in Seeds :
       state' = [eph_kp |-> SigningKeyFromBytes(e), api_key |-> StrEmpty]
  /\ pc' = [pc EXCEPT ![MainThread] = "init"]
  /\ UNCHANGED <<cellVars, listening, wallClock, orderVars, seed, call,
                 drawVars, historyVars>>

\* orders::crypto::ensure_initialized().expect(..): the call.
main_ensure_initialized ==
  /\ pc[MainThread] = "init"
  /\ pc' = [pc EXCEPT ![MainThread] = "ei_enter"]
  /\ call' = [call EXCEPT ![MainThread] =
                [fn |-> "ensure_initialized", val |-> Null,
                 startedComplete |-> cellState = "complete", drew |-> FALSE]]
  /\ UNCHANGED <<cellVars, state, listening, wallClock, orderVars, seed,
                 drawVars, historyVars>>

\* info!(public_key = %orders::crypto::public_key_base64(), ..)
main_log_public_key ==
  /\ pc[MainThread] = "log_pk"
  /\ pc' = [pc EXCEPT ![MainThread] =
              IF public_key_base64 = Panic THEN "panicked" ELSE "bind"]
  /\ UNCHANGED <<cellVars, state, listening, wallClock, orderVars, seed, call,
                 drawVars, historyVars>>

\* TcpListener::bind(..).await?; axum::serve(..): the bind succeeds and the
\* server accepts requests, or it fails and main returns the error.
main_bind ==
  /\ pc[MainThread] = "bind"
  /\ \/ /\ listening' = TRUE
        /\ pc' = [pc EXCEPT ![MainThread] = "serving"]
     \/ /\ pc' = [pc EXCEPT ![MainThread] = "exited"]
        /\ UNCHANGED listening
  /\ UNCHANGED <<cellVars, state, wallClock, orderVars, seed, call,
                 drawVars, historyVars>>

\* POST /orders/process: axum deserializes the body; a body serde rejects is
\* answered without running the handler, otherwise process_order_http runs.
process_order_http(t) ==
  /\ listening
  /\ pc[t] = "idle"
  /\ \E body \in JsonBodies :
       IF Deserialize(body) = Null
         THEN /\ call' = [call EXCEPT ![t] = [fn |-> "process_order", val |-> Rejected,
                                              submitted |-> body]]
              /\ UNCHANGED <<cellVars, state, listening, wallClock, pc, orderVars,
                             seed, drawVars, historyVars>>
         ELSE StartOrder(t, Deserialize(body), body, {})

\* The bodies of the spec's scenarios 1 and 3, which clients submit repeatedly.
RepeatedBodies == {b \in JsonBodies : b.action = "deposit" \/ b.amount = 0}

\* POST /orders/process by a client that may hold answers to the same body:
\* process_order_http, with those earlier answers recorded beside the call.
process_order_http_again(t) ==
  /\ listening
  /\ pc[t] = "idle"
  /\ \E body \in RepeatedBodies :
       StartOrder(t, Deserialize(body), body, AnsweredBefore(Deserialize(body)))

\* (mutant) The health answer carries AppState's boot keypair's public key.
HealthPublicKeyOfAppState == B64Encode(VerifyingKey(state.eph_kp))

\* let pk_b64 = orders::crypto::public_key_base64();
HealthPublicKey == public_key_base64

\* GET /orders/health: orders_health.  A panic ends the handler's task.
orders_health(t) ==
  /\ listening
  /\ pc[t] = "idle"
  /\ LET pk == HealthPublicKey
     IN  IF pk = Panic
           THEN /\ pc' = [pc EXCEPT ![t] = "panicked"]
                /\ call' = [call EXCEPT ![t] = [fn |-> "orders_health", val |-> Panic]]
                /\ UNCHANGED healthPks
           ELSE /\ call' = [call EXCEPT ![t] =
                              [fn |-> "orders_health",
                               val |-> [status |-> "ok", ed25519_pubkey_b64 |-> pk]]]
                /\ healthPks' = healthPks \cup {pk}
                /\ UNCHANGED pc
  /\ UNCHANGED <<cellVars, state, listening, wallClock, orderVars, seed,
                 drawVars, orderPks, escrowed>>

\* -------------------------------------------------------------- environment
\* The wall clock is set to another value (it is not monotonic).
ClockSet ==
  /\ \E c \in ClockValues \ {wallClock} : wallClock' = c
  /\ UNCHANGED <<cellVars, state, listening, pc, orderVars, seed, call,
                 drawVars, historyVars>>

\* ------------------------------------------------------- the specifications
Next ==
  \/ main_start
  \/ main_ensure_initialized
  \/ ensure_initialized_enter(MainThread)
  \/ ensure_initialized_draw(MainThread)
  \/ ensure_initialized_store(MainThread)
  \/ main_log_public_key
  \/ main_bind
  \/ \E t \in Handlers : process_order_http(t)
  \/ \E t \in Handlers : make_response_step(t)
  \/ \E t \in Handlers : sign_response_sign(t)
  \/ \E t \in Handlers : sign_response_seal(t)
  \/ \E t \in Handlers : orders_health(t)
  \/ ClockSet

Spec == Init /\ [][Next]_vars

NextLib ==
  \/ \E t \in Callers : ensure_initialized_call(t)
  \/ \E t \in Callers : ensure_initialized_enter(t)
  \/ \E t \in Callers : ensure_initialized_draw(t)
  \/ \E t \in Callers : ensure_initialized_store(t)
  \/ \E t \in Callers : CallPublicKey(t)
  \/ \E t \in Callers : CallSign(t)
  \/ \E t \in Callers : CallOrder(t)
  \/ \E t \in Callers : make_response_step(t)
  \/ \E t \in Callers : sign_response_sign(t)
  \/ \E t \in Callers : sign_response_seal(t)

SpecLib == InitLib /\ [][NextLib]_vars

\* The server process whose clients submit the scenario requests again and again.
NextAgain ==
  \/ main_start
  \/ main_ensure_initialized
  \/ ensure_initialized_enter(MainThread)
  \/ ensure_initialized_draw(MainThread)
  \/ ensure_initialized_store(MainThread)
  \/ main_log_public_key
  \/ main_bind
  \/ \E t \in Handlers : process_order_http_again(t)
  \/ \E t \in Handlers : make_response_step(t)
  \/ \E t \in Handlers : sign_response_sign(t)
  \/ \E t \in Handlers : sign_response_seal(t)
  \/ ClockSet

SpecAgain == Init /\ [][NextAgain]_vars

\* The server process while the wall clock stays unavailable.
NextNoClock ==
  \/ main_start
  \/ main_ensure_initialized
  \/ ensure_initialized_enter(MainThread)
  \/ ensure_initialized_draw(MainThread)
  \/ ensure_initialized_store(MainThread)
  \/ main_log_public_key
  \/ main_bind
  \/ \E t \in Handlers : process_order_http(t)
  \/ \E t \in Handlers : make_response_step(t)
  \/ \E t \in Handlers : sign_response_sign(t)
  \/ \E t \in Handlers : sign_response_seal(t)
  \/ \E t \in Handlers : orders_health(t)

SpecNoClock == InitNoClock /\ [][NextNoClock]_vars

\* The canonical encoding applied to pairs of responses.
NextEncode == \E t \in Handlers : signing_message_call(t)

SpecEncode == InitEncode /\ [][NextEncode]_vars

\* ------------------------------------------------------------------ claims
IsCall(t, fn) == call[t] # Null /\ call[t].fn = fn
Returned(t, fn) == IsCall(t, fn) /\ call[t].val # Null
IsSigned(v) == "response" \in DOMAIN v
\* Keys constructed from a drawn seed so far.
KeysGenerated == draws - failedDraws

\* C1: ensure_initialized is idempotent under concurrency.  While no randomness
\* draw has failed: at most one key is generated, and exactly one is generated
\* and stored once a caller has returned; every caller that has returned got
\* Ok; every public key a caller then reads is the public key of that one
\* stored key; and a call made when the key was already stored returns Ok
\* without drawing.
C1_EnsureIdempotent ==
  /\ failedDraws = 0 =>
       /\ KeysGenerated <= 1
       /\ \A t \in Callers : Returned(t, "ensure_initialized") =>
            /\ call[t].val = Ok
            /\ KeysGenerated = 1
            /\ cellState = "complete"
            /\ SIGNING_KEY # Null
       /\ \A t \in Callers :
            (Returned(t, "public_key_base64") /\ call[t].val # Panic) =>
               /\ SIGNING_KEY # Null
               /\ call[t].val = B64Encode(VerifyingKey(SIGNING_KEY))
  /\ \A t \in Callers :
       (IsCall(t, "ensure_initialized") /\ call[t].startedComplete) =>
          /\ ~call[t].drew
          /\ call[t].val \in {Null, Ok}
          /\ pc[t] \in {"ei_enter", "idle"}

\* C1 witness: two concurrent callers have both returned Ok, one of them drew
\* and the other, who called before the key was stored, did not.
C1_Witness ==
  /\ failedDraws = 0
  /\ \E t1, t2 \in Callers :
       /\ t1 # t2
       /\ Returned(t1, "ensure_initialized") /\ call[t1].val = Ok /\ call[t1].drew
       /\ Returned(t2, "ensure_initialized") /\ call[t2].val = Ok /\ ~call[t2].drew
       /\ ~call[t2].startedComplete

\* C2: public_key_base64 or sign called while no ensure_initialized has
\* succeeded fails with the typed error UninitializedKey and does not panic.
C2_UninitializedIsTypedError ==
  \A t \in Callers :
    ((IsCall(t, "public_key_base64") \/ IsCall(t, "sign")) /\ call[t].cellWas # "complete")
      => (call[t].val = Err("UninitializedKey") /\ pc[t] # "panicked")

\* C3: the server accepts requests only after ensure_initialized returned Ok; a
\* failed initialisation aborts startup and nothing is ever served; and no
\* handler ever finds the key slot empty (none panics).
C3_NoServingWithoutKey ==
  /\ listening =>
       /\ Returned(MainThread, "ensure_initialized") /\ call[MainThread].val = Ok
       /\ cellState = "complete"
       /\ SIGNING_KEY # Null
  /\ (Returned(MainThread, "ensure_initialized") /\ call[MainThread].val # Ok) =>
       /\ pc[MainThread] = "panicked"
       /\ ~listening
  /\ \A w \in Handlers :
       /\ pc[w] # "panicked"
       /\ (call[w] # Null => call[w].val # Panic)
       /\ ((pc[w] # "idle" \/ call[w] # Null) => listening)

\* C3 witness: the server listens, one handler has returned a signed order and
\* another has returned the health answer.
C3_Witness ==
  /\ listening
  /\ \E w1, w2 \in Handlers :
       /\ Returned(w1, "process_order") /\ IsSigned(call[w1].val)
       /\ Returned(w2, "orders_health") /\ call[w2].val # Panic


\* C4: a sealed artifact embeds the response unchanged; its signature is the
\* stored key's signature over DOMAIN_TAG followed by the canonical encoding of
\* the response; its public key is the stored key's; its scheme is "ed25519";
\* and the signature verifies under the embedded public key over that message.
C4_SealedArtifact ==
  \A t \in Handlers :
    (Returned(t, "process_order") /\ IsSigned(call[t].val)) =>
      LET a == call[t].val
          r == call[t].arg
      IN  /\ a.response = r
          /\ SIGNING_KEY # Null
          /\ B64Decode(a.signature) = Ed25519Sign(SIGNING_KEY, DOMAIN_TAG \o BcsResponse(r))
          /\ a.public_key = B64Encode(VerifyingKey(SIGNING_KEY))
          /\ a.scheme = "ed25519"
          /\ Ed25519Verify(B64Decode(a.public_key), DOMAIN_TAG \o BcsResponse(a.response),
                           B64Decode(a.signature))

\* C4 witness: two handlers hold sealed artifacts of different responses, both
\* sealing calls having run concurrently with the other handler's request.
C4_Witness ==
  \E t1, t2 \in Handlers :
    /\ t1 # t2
    /\ Returned(t1, "process_order") /\ IsSigned(call[t1].val)
    /\ Returned(t2, "process_order") /\ IsSigned(call[t2].val)
    /\ call[t1].val.response # call[t2].val.response
    /\ call[t1].val.signature # call[t2].val.signature

\* The table of section 4.2.
TableStatus(action) ==
  CASE action = "Initiate" -> "Pending"
    [] action = "Deposit"  -> "Escrowed"
    [] action = "Release"  -> "Released"
    [] action = "Refund"   -> "Refunded"

\* C5: make_response yields the table's status with notes and escrow_tx_id
\* absent, and copies version, order_id, action, amount and currency verbatim.
C5_MakeResponseTable ==
  \A t \in Handlers :
    resp[t] # Null =>
      /\ resp[t].status = TableStatus(req[t].action)
      /\ resp[t].notes = Null
      /\ resp[t].escrow_tx_id = Null
      /\ resp[t].version = req[t].version
      /\ resp[t].order_id = req[t].order_id
      /\ resp[t].action = req[t].action
      /\ resp[t].amount = req[t].amount
      /\ resp[t].currency = req[t].currency

\* C5 witness: a Refund with empty strings and a zero amount has been mapped to
\* Refunded, and a Deposit of 500 USD to Escrowed.
C5_Witness ==
  \E t1, t2 \in Handlers :
    /\ resp[t1] # Null /\ resp[t2] # Null
    /\ req[t1].action = "Refund" /\ req[t1].order_id = StrEmpty
    /\ req[t1].amount = 0 /\ req[t1].currency = StrEmpty
    /\ resp[t1].status = "Refunded" /\ resp[t1].amount = 0
    /\ req[t2].action = "Deposit" /\ req[t2].amount = 500
    /\ resp[t2].status = "Escrowed" /\ resp[t2].currency = StrUSD

\* C6: once the signing key is stored, no step replaces, rotates or clears it.
C6_KeyNeverChanges ==
  [][cellState = "complete" => (cellState' = "complete" /\ SIGNING_KEY' = SIGNING_KEY)]_vars

\* C6 witness: with the key stored, one caller has returned from a further
\* ensure_initialized and another from sealing an order.
C6_Witness ==
  /\ cellState = "complete"
  /\ \E t1, t2 \in Callers :
       /\ Returned(t1, "ensure_initialized") /\ call[t1].startedComplete
       /\ Returned(t2, "process_order") /\ IsSigned(call[t2].val)

\* C7: every public key orders_health has returned is the public key embedded
\* in every signed order response, namely the stored signing key's; the health
\* answer carries the status marker "ok".
C7_HealthKeyIsSigningKey ==
  /\ \A h \in healthPks :
       /\ \A o \in orderPks : h = o
       /\ SIGNING_KEY # Null /\ h = B64Encode(VerifyingKey(SIGNING_KEY))
  /\ \A t \in Handlers :
       Returned(t, "orders_health") =>
         /\ call[t].val # Panic
         /\ call[t].val.status = "ok"
         /\ call[t].val.ed25519_pubkey_b64 \in healthPks

\* C7 witness: both a health answer and a signed order have been returned.
C7_Witness ==
  /\ healthPks # {}
  /\ orderPks # {}
  /\ \E t \in Handlers : Returned(t, "orders_health")

\* C8: once the server listens, the key AppState holds is the signing key that
\* signs order responses.
C8_AppStateHoldsSigningKey ==
  listening => (state # Null /\ state.eph_kp = SIGNING_KEY)

\* C9 (as claimed): getrandom is called at most once in a process lifetime,
\* failed draws included.
C9_AtMostOneDraw == draws <= 1

\* C9 (amended): at most one draw succeeds, and every draw is made inside
\* ensure_initialized while the key slot is empty and after all earlier draws
\* failed; so no draw happens once the key is stored.
C9_DrawOnlyWhileEmpty ==
  /\ [](KeysGenerated <= 1)
  /\ [][draws' # draws =>
          /\ draws' = draws + 1
          /\ SIGNING_KEY = Null
          /\ cellState = "running"
          /\ draws = failedDraws
          /\ \E t \in Callers : pc[t] = "ei_draw" /\ pc'[t] # "ei_draw"]_vars

\* C9 witness: a draw failed, a later call drew again and the key is stored.
C9_Witness ==
  /\ failedDraws >= 1
  /\ KeysGenerated = 1
  /\ cellState = "complete"

\* C10: request processing is stateless.  Whatever was processed before, the
\* response's status, action, amount, currency, version and order_id are those
\* the request alone determines (a Release or Refund with no Deposit before it
\* included), and no handler step changes state that a request reads.
C10_Stateless ==
  /\ [](\A t \in Handlers :
          resp[t] # Null =>
            <<resp[t].status, resp[t].action, resp[t].amount, resp[t].currency,
              resp[t].version, resp[t].order_id>>
            = <<TableStatus(req[t].action), req[t].action, req[t].amount,
                req[t].currency, req[t].version, req[t].order_id>>)
  /\ [][(\E w \in Handlers : pc'[w] # pc[w] \/ call'[w] # call[w])
          => UNCHANGED <<cellState, SIGNING_KEY, state, listening, wallClock>>]_vars

\* C10 witness: a Release of an order with no processed Deposit is answered
\* Released, after a Refund of the same order was processed.
C10_Witness ==
  \E t1, t2 \in Handlers :
    /\ t1 # t2
    /\ resp[t1] # Null
    /\ req[t1].action = "Release"
    /\ req[t1].order_id \notin escrowed
    /\ resp[t1].status = "Released"
    /\ Returned(t2, "process_order") /\ IsSigned(call[t2].val)
    /\ call[t2].req.order_id = req[t1].order_id
    /\ call[t2].req.action = "Refund"

\* C11: the status Rejected is unreachable.  No response make_response has
\* produced, and no signed response the order endpoint has returned, has status
\* Rejected or carries notes, whatever requests were processed before.
C11_RejectedUnreachable ==
  \A t \in Handlers :
    /\ resp[t] # Null =>
         (resp[t].status # "Rejected" /\ resp[t].status \in Range(OrderStatus))
    /\ (Returned(t, "process_order") /\ IsSigned(call[t].val)) =>
         /\ call[t].val.response.status # "Rejected"
         /\ call[t].val.response.notes = Null

\* C11 witness: every action has been answered; here a Release and a Refund of
\* an order whose Deposit was never processed have both been signed, and an
\* Initiate is being mapped.
C11_Witness ==
  \E t1, t2 \in Handlers :
    /\ t1 # t2
    /\ escrowed = {}
    /\ Returned(t1, "process_order") /\ IsSigned(call[t1].val)
    /\ call[t1].req.action \in {"Release", "Refund"}
    /\ call[t1].val.response.status \in {"Released", "Refunded"}
    /\ resp[t2] # Null /\ req[t2].action = "Initiate" /\ resp[t2].status = "Pending"

\* What the two answers to one request submitted twice share: every response
\* field but the timestamp, the public key, and a signature that verifies.
C12_SamePair(first, second) ==
  /\ second.response.version = first.response.version
  /\ second.response.order_id = first.response.order_id
  /\ second.response.action = first.response.action
  /\ second.response.status = first.response.status
  /\ second.response.amount = first.response.amount
  /\ second.response.currency = first.response.currency
  /\ second.response.escrow_tx_id = first.response.escrow_tx_id
  /\ second.response.notes = first.response.notes
  /\ second.scheme = first.scheme
  /\ second.public_key = first.public_key
  /\ Ed25519Verify(B64Decode(first.public_key), DOMAIN_TAG \o BcsResponse(first.response),
                   B64Decode(first.signature))
  /\ Ed25519Verify(B64Decode(second.public_key), DOMAIN_TAG \o BcsResponse(second.response),
                   B64Decode(second.signature))

\* C12 (as claimed): a request submitted again after it was answered is
\* answered with the same fields, public key and a verifying signature, and
\* with a server_timestamp_ms not below the earlier answer's.
C12_SameRequestTwice ==
  \A t \in Handlers :
    (Returned(t, "process_order") /\ IsSigned(call[t].val)) =>
      \A first \in call[t].prev :
        /\ C12_SamePair(first, call[t].val)
        /\ call[t].val.response.server_timestamp_ms >= first.response.server_timestamp_ms

\* C12 (amended): the two answers agree on every field but server_timestamp_ms
\* and signature, carry the same public key and both verify; the signatures
\* are equal exactly when the timestamps are; and each timestamp is the wall
\* clock's reading at its own make_response call (0 before the epoch), with no
\* order between the two.
C12_SameRequestTwiceUnordered ==
  /\ [](\A t \in Handlers :
          (Returned(t, "process_order") /\ IsSigned(call[t].val)) =>
            \A first \in call[t].prev :
              /\ C12_SamePair(first, call[t].val)
              /\ (call[t].val.signature = first.signature)
                   <=> (call[t].val.response.server_timestamp_ms
                          = first.response.server_timestamp_ms))
  /\ [][\A t \in Handlers :
          (pc[t] = "po_make" /\ pc'[t] # "po_make") =>
            resp'[t].server_timestamp_ms = (IF wallClock < 0 THEN 0 ELSE wallClock)]_vars

\* C12 witness: the same request was answered twice in sequence, and the second
\* answer's timestamp is below the first's.
C12_Witness ==
  \E t \in Handlers :
    /\ Returned(t, "process_order") /\ IsSigned(call[t].val)
    /\ \E first \in call[t].prev :
         /\ call[t].val.response.server_timestamp_ms < first.response.server_timestamp_ms
         /\ call[t].val.signature # first.signature
         /\ call[t].val.public_key = first.public_key

\* C13: make_response never fails on a clock error.  While the wall clock reads
\* before the epoch, no handler fails, every response is produced with
\* server_timestamp_ms 0, and its status and copied fields are those produced
\* when the clock is available (the table's status, the request's fields).
C13_ClockErrorGivesZero ==
  \A t \in Handlers :
    /\ pc[t] # "panicked"
    /\ (call[t] # Null => call[t].val # Panic)
    /\ pc[t] \in {"po_sign", "po_seal"} => resp[t] # Null
    /\ resp[t] # Null =>
         /\ resp[t].server_timestamp_ms = 0
         /\ resp[t].status = TableStatus(req[t].action)
         /\ [resp[t] EXCEPT !.server_timestamp_ms = MaxTime]
              = make_response(req[t], MaxTime)
    /\ (Returned(t, "process_order") /\ IsSigned(call[t].val)) =>
         /\ call[t].val.response.server_timestamp_ms = 0
         /\ [call[t].val.response EXCEPT !.server_timestamp_ms = MaxTime]
              = make_response(call[t].req, MaxTime)

\* C13 witness: with the clock unavailable, one handler has returned a signed
\* Deposit stamped 0 and another holds a Refund response stamped 0.
C13_Witness ==
  /\ wallClock < 0
  /\ \E t1, t2 \in Handlers :
       /\ Returned(t1, "process_order") /\ IsSigned(call[t1].val)
       /\ call[t1].req.action = "Deposit"
       /\ call[t1].val.response.status = "Escrowed"
       /\ call[t1].val.response.server_timestamp_ms = 0
       /\ resp[t2] # Null /\ req[t2].action = "Refund"
       /\ resp[t2].server_timestamp_ms = 0

\* C14: the encoding used for signing is deterministic and injective.  Of any
\* two encoded responses, the signed messages are equal exactly when the
\* responses are equal in every field; each message is the domain tag followed
\* by the response's encoding, so equal messages mean equal responses.
C14_EncodingInjective ==
  \A t1, t2 \in Handlers :
    (/\ Returned(t1, "signing_message") /\ call[t1].val # Panic
     /\ Returned(t2, "signing_message") /\ call[t2].val # Panic) =>
      /\ (call[t1].arg = call[t2].arg) => (call[t1].val.msg = call[t2].val.msg)
      /\ (call[t1].val.msg = call[t2].val.msg) =>
           \A f \in DOMAIN ScenarioResponse : call[t1].arg[f] = call[t2].arg[f]
      /\ Len(call[t1].val.msg) > Len(DOMAIN_TAG)
      /\ SubSeq(call[t1].val.msg, 1, Len(DOMAIN_TAG)) = DOMAIN_TAG

\* C14 witness: two encoded responses that differ only in which of
\* escrow_tx_id and notes is present, with messages of the same length that
\* differ.
C14_Witness ==
  \E t1, t2 \in Handlers :
    /\ Returned(t1, "signing_message") /\ call[t1].val # Panic
    /\ Returned(t2, "signing_message") /\ call[t2].val # Panic
    /\ call[t1].arg.escrow_tx_id = Null /\ call[t1].arg.notes = Some(StrEmpty)
    /\ call[t2].arg.escrow_tx_id = Some(StrEmpty) /\ call[t2].arg.notes = Null
    /\ Len(call[t1].val.msg) = Len(call[t2].val.msg)
    /\ call[t1].val.msg # call[t2].val.msg

\* C15: when the canonical serialization of a response fails while sealing,
\* the call ends with an internal error value, not with a panic, and returns
\* no signed artifact.
C15_EncodingFailureIsError ==
  \A t \in Handlers :
    (IsCall(t, "signing_message") /\ bcs_to_bytes_is_err(call[t].arg)) =>
      /\ call[t].val = Err("EncodingFailure")
      /\ pc[t] # "panicked"

\* C16: a body whose action string is outside initiate, deposit, release,
\* refund is rejected at deserialization.  The call for it ends rejected with
\* the handler never started: no request, response or signature exists for it
\* and nothing is returned signed; every request in the pipeline and every
\* signed answer comes from a body whose action is in the closed set.
C16_UnknownActionRejected ==
  \A t \in Handlers :
    IsCall(t, "process_order") =>
      IF call[t].submitted.action \in {"initiate", "deposit", "release", "refund"}
        THEN call[t].val # Rejected
        ELSE /\ call[t].val = Rejected
             /\ pc[t] = "idle"
             /\ req[t] = Null /\ resp[t] = Null /\ sig[t] = Null

\* C16 witness: a handler has rejected a body with action "cancel" while the
\* other handler holds a signed answer.
C16_Witness ==
  \E t1, t2 \in Handlers :
    /\ t1 # t2
    /\ orderPks # {}
    /\ Returned(t1, "process_order") /\ call[t1].val = Rejected
    /\ call[t1].submitted.action = "cancel"
    /\ Returned(t2, "process_order") /\ IsSigned(call[t2].val)

\* C17: a call of ensure_initialized whose draw fails returns the error
\* "rng_unavailable" and leaves the key slot empty, as it was before the call;
\* a call returns Ok only with the key slot filled; and a call that enters
\* after a failed one (having waited for it or not) finds the slot empty and
\* makes its own draw, whose seed, when the draw succeeds, becomes the key.
C17_FailedDrawLeavesSlotEmpty ==
  /\ [](\A t \in Callers :
          /\ (Returned(t, "ensure_initialized") /\ call[t].val = Ok) =>
               (cellState = "complete" /\ SIGNING_KEY # Null)
          /\ (Returned(t, "ensure_initialized") /\ call[t].val # Ok) =>
               (call[t].val = Err("rng_unavailable") /\ call[t].drew /\ pc[t] # "panicked"))
  /\ []((cellState = "complete") <=> (SIGNING_KEY # Null))
  /\ []((failedDraws >= 1 /\ SIGNING_KEY # Null) => draws = failedDraws + 1)
  /\ [][\A t \in Callers :
          /\ (failedDraws' = failedDraws + 1 /\ pc[t] = "ei_draw" /\ pc'[t] # "ei_draw") =>
               /\ call'[t].val = Err("rng_unavailable")
               /\ SIGNING_KEY = Null /\ SIGNING_KEY' = Null
               /\ cellState' = "incomplete"
          /\ (failedDraws >= 1 /\ SIGNING_KEY = Null
                /\ pc[t] = "ei_enter" /\ pc'[t] # "ei_enter") =>
               (pc'[t] = "ei_draw" /\ call'[t].val = Null)
          /\ (pc[t] = "ei_store" /\ pc'[t] # "ei_store") =>
               /\ call[t].drew
               /\ SIGNING_KEY' = SigningKeyFromBytes(seed[t])
               /\ cellState' = "complete"
               /\ call'[t].val = Ok]_vars

\* C17 witness: one caller's draw failed and it returned the error; another
\* caller, whose call began with the slot empty, made the second draw, stored
\* the key and returned Ok.
C17_Witness ==
  \E t1, t2 \in Callers :
    /\ t1 # t2
    /\ Returned(t1, "ensure_initialized") /\ call[t1].val = Err("rng_unavailable")
    /\ Returned(t2, "ensure_initialized") /\ call[t2].val = Ok
    /\ call[t2].drew /\ ~call[t2].startedComplete
    /\ failedDraws = 1 /\ draws = 2
    /\ SIGNING_KEY # Null

=============================================================================
